---- MODULE Spec2Model ----
(***************************************************************************)
(* Session lifecycle of the MovieDB demo API                               *)
(* (src/server/controllers/movie-db.js).                                   *)
(*                                                                         *)
(* Every request handler is an async function.  One action of this model  *)
(* is one awaited statement being applied by its collaborator (the        *)
(* AppUser table or the humanID verifier) followed by the handler's       *)
(* synchronous continuation up to its next await.  Requests of different  *)
(* slots interleave at these points, as they do on the node event loop.   *)
(***************************************************************************)
EXTENDS Integers, Sequences, FiniteSets, TLC

\* ------------------------------------------------------------------ bounds
MaxTicks == 6          \* the clock stops at this tick
TickMs == 500          \* milliseconds per tick of the model clock
MaxRequests == 3       \* requests started in one behaviour
JwtLifetimeSec == 1    \* ms(config.client.jwtLifetime) / 1000
Procs == {1, 2}        \* request slots that may be in flight together
HandleOrder == <<"h1", "h2">>  \* userHash values the verifier returns, by first appearance

\* ------------------------------------------------------- configuration
AppSecret == "app-secret"          \* config.client.appSecret
SessionIdSecret == "sid-secret"    \* config.client.sessionIdSecret
Secrets == {AppSecret, "wrong", "absent"}
Missing == "missing"               \* a body field that is not present
ExchangeTokens == {"tok-A", Missing}
FullNames == {"Jane", Missing}
SessionOps == {"refresh", "logout", "getProfile", "updateProfile"}

VARIABLES
    now,        \* ticks of the wall clock
    users,      \* the AppUser table: row i has primary key i
    sessions,   \* every session minted so far: token, the row it was minted for
    req,        \* per slot: the request in flight and its locals
    overlap,    \* pairs of slots whose present requests were in flight together
    started     \* number of requests started

vars == <<now, users, sessions, req, overlap, started>>

\* ------------------------------------------------------- pure functions
\* new Date().getTime()
Date == now * TickMs

\* Math.round(t.getTime() / 1000), t >= 0
getUnixTime(t) == (t + 500) \div 1000

Digits == <<"0", "1", "2", "3", "4", "5", "6", "7", "8", "9">>

\* `${n}` for an integer n
RECURSIVE DecStr(_)
DecStr(n) ==
    IF n < 0 THEN <<"-">> \o DecStr(0 - n)
    ELSE IF n < 10 THEN <<Digits[n + 1]>>
    ELSE DecStr(n \div 10) \o <<Digits[(n % 10) + 1]>>

generateExtId(t) == DecStr(getUnixTime(t))

\* components.Common.hmac: a keyed one-way function, modelled as injective
hmac(raw, key) == <<"hmac", key, raw>>

createSessionId_noMarker(userExtId, lastLogInMillis) ==
    hmac(userExtId, SessionIdSecret)
createSessionId(userExtId, lastLogInMillis) ==
    hmac(userExtId \o <<"-">> \o DecStr(lastLogInMillis), SessionIdSecret)

handleValidateClientApp_open(clientSecret) == TRUE
\* TRUE when the gate calls next(), FALSE when it throws
handleValidateClientApp(clientSecret) == clientSecret = AppSecret

\* what verifyExchangeToken throws for an outcome of the call, "OK" when it returns
verifyExchangeToken(outcome) ==
    CASE outcome = "unreachable" -> "FetchError"
      [] outcome = "failure" -> "ERR_3"
      [] OTHER -> "OK"

\* this.validate({exchangeToken: 'required'}, body): TRUE when the field is there
validate(exchangeToken) == exchangeToken # Missing

\* ------------------------------------------------------------- tokens
NoData == <<>>
Absent == [kind |-> "absent", iat |-> 0, exp |-> 0, userId |-> NoData, sessionId |-> NoData]
Malformed == [kind |-> "malformed", iat |-> 0, exp |-> 0, userId |-> NoData, sessionId |-> NoData]
BadSig(tok) == [tok EXCEPT !.kind = "badsig"]

\* jwt.sign({exp, data}, jwtSecret): iat is added by the library
jwtSign(exp, userId, sessionId, t) ==
    [kind |-> "jwt", iat |-> t \div 1000, exp |-> exp, userId |-> userId, sessionId |-> sessionId]

verifyJWT_noExpiry(token, t) ==
    IF token.kind # "jwt" THEN "ERR_2" ELSE "OK"
\* jwt.verify: the signature is checked first, then exp against floor(now / 1000)
verifyJWT(token, t) ==
    IF token.kind # "jwt" THEN "ERR_2"
    ELSE IF t \div 1000 >= token.exp THEN "ERR_1"
    ELSE "OK"

\* ---------------------------------------------------------- AppUser table
Ids(us) == 1..Len(us)

\* AppUser.findOne({where: {extId}}): the first row in primary key order, 0 if none
findOneByExtId(us, extId) ==
    LET m == {i \in Ids(us) : us[i].extId = extId}
    IN IF m = {} THEN 0 ELSE CHOOSE i \in m : \A j \in m : i <= j

findByUserHash(us, h) ==
    LET m == {i \in Ids(us) : us[i].userHash = h}
    IN IF m = {} THEN 0 ELSE CHOOSE i \in m : \A j \in m : i <= j

findOrCreate_alwaysCreate(us, h, defaults) == Append(us, defaults)
\* AppUser.findOrCreate({where: {userHash}, defaults}): the table afterwards
findOrCreate(us, h, defaults) ==
    IF findByUserHash(us, h) = 0 THEN Append(us, defaults) ELSE us

checkSession_noCompare(us, token) ==
    IF findOneByExtId(us, token.userId) = 0 THEN "RESPONSE_ERROR_UNAUTHORIZED" ELSE "OK"
\* the part of validateUserSession after the findOne: "OK" or the error thrown
checkSession(us, token) ==
    LET i == findOneByExtId(us, token.userId)
    IN IF i = 0 THEN "RESPONSE_ERROR_UNAUTHORIZED"
       ELSE LET lastLogIn == IF us[i].lastLogIn = <<>> THEN -1
                             ELSE getUnixTime(us[i].lastLogIn[1])
            IN IF createSessionId(us[i].extId, lastLogIn) # token.sessionId
               THEN "RESPONSE_ERROR_UNAUTHORIZED"
               ELSE "OK"

\* validateUserSession run without interruption at time t against table us
validateUserSession(us, token, t) ==
    IF verifyJWT(token, t) # "OK" THEN verifyJWT(token, t) ELSE checkSession(us, token)

\* ----------------------------------------------------------- requests
Idle == [op |-> "none", pc |-> "idle", secret |-> "", body |-> Missing, userHash |-> "",
         token |-> Absent, extId |-> NoData, userId |-> 0, userExtId |-> NoData,
         timestamp |-> 0, err |-> "", caught |-> "", result |-> Absent,
         expiredAt |-> 0, fetches |-> 0, lookups |-> 0, created |-> FALSE]

Busy(p) == req[p].pc \notin {"idle", "done"}
\* a new request takes the lowest slot that has no request in flight
CanStart(p) ==
    /\ started < MaxRequests
    /\ ~Busy(p)
    /\ \A q \in Procs : q < p => Busy(q)

\* slot p starts a request: it overlaps the requests in flight
Started(p) ==
    /\ started' = started + 1
    /\ overlap' = {o \in overlap : p \notin o} \cup {{p, q} : q \in {x \in Procs : Busy(x)}}

\* the request has been answered: its locals are gone, what it did is kept
Finish(r) == [Idle EXCEPT !.op = r.op, !.pc = "done", !.userId = r.userId,
                          !.userExtId = r.userExtId, !.fetches = r.fetches,
                          !.lookups = r.lookups, !.created = r.created]
\* the handler throws e
Fail(r, e) == [Finish(r) EXCEPT !.err = e]
Caught_rethrow(r, e) == Fail(r, e)
\* handleLogOut's catch: the error is logged and the handler returns normally
Caught(r, e) == [Finish(r) EXCEPT !.caught = e]

Presentable == {s.token : s \in sessions} \cup {BadSig(s.token) : s \in sessions}
               \cup {Absent, Malformed}

Init ==
    /\ now = 3
    /\ users = <<>>
    /\ sessions = {}
    /\ req = [p \in Procs |-> Idle]
    /\ overlap = {}
    /\ started = 0

Tick ==
    /\ now < MaxTicks
    /\ now' = now + 1
    /\ UNCHANGED <<users, sessions, req, overlap, started>>

\* the log-in with the body not validated before the fetch is issued
LogInRequest_fetchFirst(p, secret, xt) ==
    /\ CanStart(p)
    /\ Started(p)
    /\ LET r == [Idle EXCEPT !.op = "login", !.secret = secret, !.body = xt]
       IN req' = [req EXCEPT ![p] =
            IF ~handleValidateClientApp(secret) THEN Fail(r, "RESPONSE_ERROR_UNAUTHORIZED")
            ELSE [r EXCEPT !.pc = "verifyExchangeToken", !.fetches = 1]]
    /\ UNCHANGED <<now, users, sessions>>

\* POST /users/log-in: handleValidateClientApp, then handleLogIn up to the fetch
LogInRequest(p, secret, xt) ==
    /\ CanStart(p)
    /\ Started(p)
    /\ LET r == [Idle EXCEPT !.op = "login", !.secret = secret, !.body = xt]
       IN req' = [req EXCEPT ![p] =
            IF ~handleValidateClientApp(secret) THEN Fail(r, "RESPONSE_ERROR_UNAUTHORIZED")
            ELSE IF ~validate(xt) THEN Fail(r, "ValidationFailed")
            ELSE [r EXCEPT !.pc = "verifyExchangeToken", !.fetches = 1]]
    /\ UNCHANGED <<now, users, sessions>>

\* userHash values are opaque: a value not seen before is the next of HandleOrder
KnownHandles ==
    {users[i].userHash : i \in Ids(users)}
        \cup {req[q].userHash : q \in {x \in Procs : req[x].userHash # ""}}
Handles ==
    {HandleOrder[k] : k \in {j \in 1..Len(HandleOrder) :
                                \A l \in 1..(j - 1) : HandleOrder[l] \in KnownHandles}}

\* the humanID verifier answers with userHash h (or the fetch rejects); on success
\* handleLogIn evaluates generateExtId() and issues the findOrCreate
VerifyExchangeToken(p, outcome, h) ==
    /\ req[p].pc = "verifyExchangeToken"
    /\ req' = [req EXCEPT ![p] =
         IF verifyExchangeToken(outcome) # "OK" THEN Fail(@, verifyExchangeToken(outcome))
         ELSE [@ EXCEPT !.pc = "findOrCreate", !.userHash = h,
                        !.extId = generateExtId(Date)]]
    /\ UNCHANGED <<now, users, sessions, overlap, started>>

\* the findOrCreate is applied; handleLogIn takes users[0] and calls newUserSession,
\* which issues the update
FindOrCreate(p) ==
    /\ req[p].pc = "findOrCreate"
    /\ LET h == req[p].userHash
           defaults == [extId |-> req[p].extId, userHash |-> h, fullName |-> "generated",
                        lastLogIn |-> <<>>, updatedAt |-> Date]
           us == findOrCreate(users, h, defaults)
           i == findByUserHash(us, h)
       IN /\ users' = us
          /\ req' = [req EXCEPT ![p] = [@ EXCEPT !.pc = "newUserSession", !.userId = i,
                         !.userExtId = us[i].extId, !.lookups = @ + 1,
                         !.created = Len(us) > Len(users),
                         !.timestamp = getUnixTime(Date)]]
    /\ UNCHANGED <<now, sessions, overlap, started>>

newUserSession_rawSeconds(us, userId, timestamp) ==
    [us EXCEPT ![userId] = [@ EXCEPT !.lastLogIn = <<timestamp>>,
                                     !.updatedAt = timestamp]]
newUserSession_rewriteExtId(us, userId, timestamp) ==
    [us EXCEPT ![userId] = [@ EXCEPT !.extId = DecStr(timestamp),
                                     !.lastLogIn = <<timestamp * 1000>>,
                                     !.updatedAt = timestamp * 1000]]
\* the table after newUserSession's update
newUserSession(us, userId, timestamp) ==
    [us EXCEPT ![userId] = [@ EXCEPT !.lastLogIn = <<timestamp * 1000>>,
                                     !.updatedAt = timestamp * 1000]]

\* the update of newUserSession is applied; the token is signed and returned
NewUserSession(p) ==
    /\ req[p].pc = "newUserSession"
    /\ LET r == req[p]
           sessionId == createSessionId(r.userExtId, r.timestamp)
           expiredAt == r.timestamp + JwtLifetimeSec
           tok == jwtSign(expiredAt, r.userExtId, sessionId, Date)
       IN /\ users' = newUserSession(users, r.userId, r.timestamp)
          /\ sessions' = sessions \cup {[token |-> tok, id |-> r.userId,
                                          timestamp |-> r.timestamp]}
          /\ req' = [req EXCEPT ![p] = [Finish(r) EXCEPT !.result = tok,
                                                         !.expiredAt = expiredAt]]
    /\ UNCHANGED <<now, overlap, started>>

\* a request behind handleValidateUserSession, or log-out: validateUserSession
\* runs verifyJWT and issues the findOne
SessionRequest(p, op, token) ==
    /\ CanStart(p)
    /\ Started(p)
    /\ LET r == [Idle EXCEPT !.op = op, !.token = token]
           v == verifyJWT(token, Date)
       IN req' = [req EXCEPT ![p] =
            IF v = "OK" THEN [r EXCEPT !.pc = "findOne"]
            ELSE IF op = "logout" THEN Caught(r, v)
            ELSE Fail(r, v)]
    /\ UNCHANGED <<now, users, sessions>>

\* the findOne of validateUserSession is applied; the session id is compared
\* and the handler proper starts
FindOne(p) ==
    /\ req[p].pc = "findOne"
    /\ LET r == [req[p] EXCEPT !.lookups = @ + 1]
           c == checkSession(users, r.token)
           i == findOneByExtId(users, r.token.userId)
       IN req' = [req EXCEPT ![p] =
            IF c # "OK"
            THEN (IF r.op = "logout" THEN Caught(r, c) ELSE Fail(r, c))
            ELSE LET a == [r EXCEPT !.userId = i, !.userExtId = users[i].extId]
                 IN CASE a.op = "refresh" ->
                           [a EXCEPT !.pc = "newUserSession", !.timestamp = getUnixTime(Date)]
                      [] a.op = "logout" -> [a EXCEPT !.pc = "logOutUpdate", !.timestamp = Date]
                      [] a.op = "getProfile" -> [a EXCEPT !.pc = "findByPk"]
                      [] OTHER -> [a EXCEPT !.pc = "updateProfile"]]
    /\ UNCHANGED <<now, users, sessions, overlap, started>>

handleLogOut_noWrite(us, id, t) == us
\* the table after handleLogOut's update
handleLogOut(us, id, t) ==
    [us EXCEPT ![id] = [@ EXCEPT !.lastLogIn = <<>>, !.updatedAt = t]]

LogOutUpdate(p) ==
    /\ req[p].pc = "logOutUpdate"
    /\ users' = handleLogOut(users, req[p].userId, req[p].timestamp)
    /\ req' = [req EXCEPT ![p] = Finish(@)]
    /\ UNCHANGED <<now, sessions, overlap, started>>

\* handleGetProfile: findByPk and the response
FindByPk(p) ==
    /\ req[p].pc = "findByPk"
    /\ req' = [req EXCEPT ![p] = Finish([@ EXCEPT !.lookups = @ + 1])]
    /\ UNCHANGED <<now, users, sessions, overlap, started>>

handleUpdateProfile_clearLastLogIn(us, id, fullName) ==
    [us EXCEPT ![id] = [@ EXCEPT !.fullName = fullName, !.lastLogIn = <<>>]]
\* the table after handleUpdateProfile's update; an undefined fullName is not written
handleUpdateProfile(us, id, fullName) ==
    IF fullName = Missing THEN us
    ELSE [us EXCEPT ![id] = [@ EXCEPT !.fullName = fullName]]

\* handleUpdateProfile reads req.body and its update is applied
UpdateProfile(p, fullName) ==
    /\ req[p].pc = "updateProfile"
    /\ users' = handleUpdateProfile(users, req[p].userId, fullName)
    /\ req' = [req EXCEPT ![p] = Finish(@)]
    /\ UNCHANGED <<now, sessions, overlap, started>>

Next ==
    \/ Tick
    \/ \E p \in Procs, s \in Secrets, xt \in ExchangeTokens : LogInRequest(p, s, xt)
    \/ \E p \in Procs, h \in Handles : VerifyExchangeToken(p, "success", h)
    \/ \E p \in Procs, o \in {"failure", "unreachable"} : VerifyExchangeToken(p, o, "")
    \/ \E p \in Procs : FindOrCreate(p)
    \/ \E p \in Procs : NewUserSession(p)
    \/ \E p \in Procs, op \in SessionOps, t \in Presentable : SessionRequest(p, op, t)
    \/ \E p \in Procs : FindOne(p)
    \/ \E p \in Procs : LogOutUpdate(p)
    \/ \E p \in Procs : FindByPk(p)
    \/ \E p \in Procs, n \in FullNames : UpdateProfile(p, n)

Spec == Init /\ [][Next]_vars

\* ------------------------------------------------------------ properties
\* validateUserSession at the present instant
Validates(us, token) == validateUserSession(us, token, Date) = "OK"
\* the row's extId is held by no other row
UniqueExtId(us, i) == \A j \in Ids(us) : us[j].extId = us[i].extId => j = i
Minting == {"login", "refresh"}

\* C1: when a login or refresh for a user completes with token T2, every other
\* token minted earlier for that user no longer validates and T2 validates.
\* Stated for rows with an extId of their own and a T2 that is unexpired when
\* it is returned, so that a violation is the second-granularity of lastLogIn.
C1_SingleActiveSession ==
    [][\A p \in Procs :
         (/\ NewUserSession(p)
          /\ UniqueExtId(users, req[p].userId)
          /\ verifyJWT(req'[p].result, Date) = "OK")
         => /\ Validates(users', req'[p].result)
            /\ \A s \in sessions :
                 (s.id = req[p].userId /\ s.token # req'[p].result)
                 => ~Validates(users', s.token)]_vars

\* C2: the step that applies a log-out's update leaves no token minted for
\* that row able to pass the session check, expired or not.
C2_LogoutInvalidates ==
    [][\A p \in Procs :
         LogOutUpdate(p)
         => \A s \in sessions :
              s.id = req[p].userId
              => checkSession(users', s.token) = "RESPONSE_ERROR_UNAUTHORIZED"]_vars

C2_Witness ==
    \E p \in Procs, s \in sessions :
        /\ req[p].op = "logout" /\ req[p].pc = "done" /\ req[p].caught = ""
        /\ s.id = req[p].userId
        /\ users[s.id].lastLogIn = <<>>
        /\ verifyJWT(s.token, Date) = "OK"

\* C3: a token validates only against the lastLogIn it was minted with: the
\* row it resolves to has lastLogIn set, to the timestamp of the token's mint,
\* and tokens that validate for one row carry one timestamp; nothing that was
\* not minted validates.
C3_ValidOnlyForCurrentLastLogIn ==
    /\ \A s \in sessions :
         Validates(users, s.token)
         => LET i == findOneByExtId(users, s.token.userId)
            IN /\ users[i].lastLogIn = <<s.timestamp * 1000>>
               /\ \A s2 \in sessions :
                    (Validates(users, s2.token) /\ s2.token.userId = s.token.userId)
                    => s2.timestamp = s.timestamp
    /\ \A t \in Presentable : Validates(users, t) => t \in {s.token : s \in sessions}

C3_Witness ==
    \E s1 \in sessions, s2 \in sessions :
        /\ s1.id = s2.id
        /\ Validates(users, s1.token)
        /\ ~Validates(users, s2.token)
        /\ verifyJWT(s2.token, Date) = "OK"

\* C4: the token a log-in or refresh returns, when unexpired, validates once
\* the mint has completed and resolves to the id and extId of the row it was
\* minted for.
C4_FreshTokenValidates ==
    [][\A p \in Procs :
         (NewUserSession(p) /\ verifyJWT(req'[p].result, Date) = "OK")
         => /\ Validates(users', req'[p].result)
            /\ findOneByExtId(users', req'[p].result.userId) = req[p].userId
            /\ users'[req[p].userId].extId = req'[p].result.userId]_vars

\* C5: a request presenting a correctly signed token whose exp has passed is
\* rejected with ERR_1 by verifyJWT, before any AppUser lookup.
C5_ExpiredRejected ==
    [][\A p \in Procs, op \in SessionOps, t \in Presentable :
         (/\ req'[p].op = op /\ ~Busy(p)
          /\ t.kind = "jwt" /\ Date \div 1000 >= t.exp
          /\ SessionRequest(p, op, t))
         => /\ req'[p].pc = "done"
            /\ req'[p].lookups = 0
            /\ IF op = "logout" THEN req'[p].caught = "ERR_1" ELSE req'[p].err = "ERR_1"]_vars

C5_Witness ==
    \E p \in Procs :
        /\ req[p].pc = "done" /\ req[p].err = "ERR_1" /\ req[p].lookups = 0
        /\ sessions # {}
        /\ \A s \in sessions : checkSession(users, s.token) = "OK"

\* C6: no two rows share a userHash; a findOrCreate for a userHash that has a
\* row adds none and resolves to that row's id and extId.
UniqueUserHash(us) == \A i \in Ids(us), j \in Ids(us) : us[i].userHash = us[j].userHash => i = j

C7_LastWriteWins ==
    [][\A p \in Procs, q \in Procs :
         (/\ NewUserSession(p)
          /\ {p, q} \in overlap /\ q # p
          /\ req[q].pc = "done" /\ req[q].op \in Minting /\ req[q].result # Absent
          /\ req[q].userId = req[p].userId
          /\ req[q].result # req'[p].result
          /\ UniqueExtId(users, req[p].userId)
          /\ verifyJWT(req'[p].result, Date) = "OK"
          /\ verifyJWT(req[q].result, Date) = "OK")
         => /\ Validates(users', req'[p].result)
            /\ ~Validates(users', req[q].result)]_vars

\* C8: a log-out whose token fails validation returns normally and writes nothing.
C8_BestEffortLogout ==
    [][\A p \in Procs :
         (\/ /\ req'[p].op = "logout" /\ ~Busy(p)
             /\ \E t \in Presentable :
                    verifyJWT(t, Date) # "OK" /\ SessionRequest(p, "logout", t)
          \/ /\ FindOne(p) /\ req[p].op = "logout"
             /\ checkSession(users, req[p].token) # "OK")
         => /\ req'[p].pc = "done"
            /\ req'[p].err = ""
            /\ users' = users]_vars

C8_Witness ==
    \E p \in Procs, q \in Procs :
        /\ req[p].op = "logout" /\ req[p].pc = "done" /\ req[p].err = ""
        /\ req[p].caught = "RESPONSE_ERROR_UNAUTHORIZED" /\ req[p].lookups = 1
        /\ req[q].op = "login" /\ req[q].result # Absent
        /\ Validates(users, req[q].result)

\* C9: a log-in whose clientSecret header is not the configured secret throws
\* RESPONSE_ERROR_UNAUTHORIZED with no fetch issued, no row created or written
\* and no token minted.
C9_UnknownClientSecret ==
    [][\A p \in Procs, c \in Secrets, xt \in ExchangeTokens :
         (c # AppSecret /\ ~Busy(p) /\ req'[p].op = "login" /\ LogInRequest(p, c, xt))
         => /\ req'[p].pc = "done"
            /\ req'[p].err = "RESPONSE_ERROR_UNAUTHORIZED"
            /\ req'[p].fetches = 0
            /\ req'[p].result = Absent
            /\ users' = users /\ sessions' = sessions]_vars

C9_Witness ==
    \E p \in Procs :
        /\ req[p].op = "login" /\ req[p].pc = "done"
        /\ req[p].err = "RESPONSE_ERROR_UNAUTHORIZED" /\ req[p].fetches = 0
        /\ users # <<>>

\* C10: when the verifier reports failure or cannot be reached, the log-in
\* fails with ERR_3 after its one fetch, with no row created or written and no
\* token minted.
C10_VerificationFailure ==
    [][\A p \in Procs, o \in {"failure", "unreachable"} :
         VerifyExchangeToken(p, o, "")
         => /\ req'[p].pc = "done"
            /\ req'[p].err = "ERR_3"
            /\ req'[p].fetches = 1
            /\ req'[p].result = Absent
            /\ users' = users /\ sessions' = sessions]_vars

\* C11: an updateProfile whose body has no fullName fails with ValidationFailed
\* and the row's fullName stays as it was.
C11_MissingNameRejected ==
    [][\A p \in Procs :
         UpdateProfile(p, Missing)
         => /\ req'[p].pc = "done"
            /\ req'[p].err = "ValidationFailed"
            /\ users'[req[p].userId].fullName = users[req[p].userId].fullName]_vars

\* C12: a log-in with the right clientSecret and no exchangeToken in its body
\* fails with ValidationFailed with no fetch issued, no row created or written
\* and no token minted.
C12_MissingExchangeToken ==
    [][\A p \in Procs :
         (~Busy(p) /\ req'[p].op = "login" /\ LogInRequest(p, AppSecret, Missing))
         => /\ req'[p].pc = "done"
            /\ req'[p].err = "ValidationFailed"
            /\ req'[p].fetches = 0
            /\ req'[p].result = Absent
            /\ users' = users /\ sessions' = sessions]_vars

C12_Witness ==
    \E p \in Procs :
        /\ req[p].op = "login" /\ req[p].pc = "done"
        /\ req[p].err = "ValidationFailed" /\ req[p].fetches = 0
        /\ users # <<>>

\* C13: the step that applies an updateProfile writes the row the request
\* validated as and no other: no row is added, every other row is as before,
\* the written row keeps its extId, userHash and lastLogIn, and each token that
\* validated before the step validates after it.
C13_UpdateProfileFrame ==
    [][\A p \in Procs, n \in FullNames :
         UpdateProfile(p, n)
         => /\ Len(users') = Len(users)
            /\ \A i \in Ids(users) :
                 /\ users'[i].lastLogIn = users[i].lastLogIn
                 /\ users'[i].extId = users[i].extId
                 /\ users'[i].userHash = users[i].userHash
                 /\ i # req[p].userId => users'[i] = users[i]
            /\ \A t \in Presentable : Validates(users, t) => Validates(users', t)]_vars

C13_Witness ==
    \E p \in Procs, s \in sessions :
        /\ req[p].op = "updateProfile" /\ req[p].pc = "done" /\ req[p].err = ""
        /\ Len(users) = 2
        /\ users[req[p].userId].fullName = "Jane"
        /\ \E i \in Ids(users) : users[i].fullName = "generated"
        /\ s.id = req[p].userId /\ Validates(users, s.token)

\* the session id of the token is the one derived from the row its userId
\* selects, as that row is stored in us
FingerprintMatches(us, token) ==
    LET i == findOneByExtId(us, token.userId)
    IN /\ i # 0
       /\ token.sessionId = createSessionId(us[i].extId,
                                IF us[i].lastLogIn = <<>> THEN -1
                                ELSE getUnixTime(us[i].lastLogIn[1]))

\* C14: a refresh whose token does not pass verifyJWT, selects no row or
\* carries another session id than the row's ends with the validation error,
\* no token and the table as it was; the update of a refresh that went on
\* writes the row its token's userId selects and no other.
C14_RefreshGated ==
    [][\A p \in Procs :
         /\ (\/ /\ req'[p].op = "refresh" /\ ~Busy(p)
                /\ \E t \in Presentable :
                       verifyJWT(t, Date) # "OK" /\ SessionRequest(p, "refresh", t)
             \/ /\ FindOne(p) /\ req[p].op = "refresh"
                /\ ~FingerprintMatches(users, req[p].token))
            => /\ req'[p].pc = "done"
               /\ req'[p].err \in {"ERR_1", "ERR_2", "RESPONSE_ERROR_UNAUTHORIZED"}
               /\ req'[p].result = Absent
               /\ users' = users /\ sessions' = sessions
         /\ (NewUserSession(p) /\ req[p].op = "refresh")
            => /\ req[p].userId = findOneByExtId(users, req[p].token.userId)
               /\ Len(users') = Len(users)
               /\ \A i \in Ids(users) : i # req[p].userId => users'[i] = users[i]]_vars

C14_Witness ==
    \E p \in Procs, s \in sessions :
        /\ req[p].op = "refresh" /\ req[p].pc = "done"
        /\ req[p].err = "RESPONSE_ERROR_UNAUTHORIZED" /\ req[p].lookups = 1
        /\ Validates(users, s.token)
        /\ \E s2 \in sessions : s2.id = s.id /\ s2.timestamp # s.timestamp

\* C15: the lastLogIn of a row, from one write of it to the next, never goes
\* back, and a minted token that the session check rejects is rejected after
\* every further step.  Stated for rows with an extId of their own.
C15_InvalidStaysInvalid ==
    [][/\ \A i \in Ids(users) :
            (users[i].lastLogIn # <<>> /\ users'[i].lastLogIn # <<>>)
            => users'[i].lastLogIn[1] >= users[i].lastLogIn[1]
       /\ \A s \in sessions :
            (UniqueExtId(users', s.id) /\ checkSession(users, s.token) # "OK")
            => checkSession(users', s.token) # "OK"]_vars

\* C16: no step removes a row or changes the primary key, extId or userHash of
\* a row; a row is added only by a findOrCreate, one at a time, with the extId
\* and userHash that log-in passed as defaults.
C16_IdentityImmutable ==
    [][/\ Len(users') >= Len(users)
       /\ \A i \in Ids(users) :
            /\ users'[i].extId = users[i].extId
            /\ users'[i].userHash = users[i].userHash
       /\ Len(users') > Len(users)
          => \E p \in Procs :
               /\ FindOrCreate(p)
               /\ Len(users') = Len(users) + 1
               /\ users'[Len(users')].extId = req[p].extId
               /\ users'[Len(users')].userHash = req[p].userHash]_vars

C16_Witness ==
    \E s \in sessions :
        /\ users[s.id].fullName = "Jane"
        /\ users[s.id].lastLogIn = <<>>
        /\ users[s.id].extId = s.token.userId
        /\ started = MaxRequests

\* C17: when newUserSession completes for timestamp t, the token's exp is
\* t + JwtLifetimeSec, the expiredAt returned equals that exp, the row's
\* lastLogIn reads back as second t, and the token's sessionId is the one
\* derived from the row's extId and that stored second.
C17_MintArithmetic ==
    [][\A p \in Procs :
         NewUserSession(p)
         => LET t == req[p].timestamp
                u == users'[req[p].userId]
            IN /\ req'[p].result.exp = t + JwtLifetimeSec
               /\ req'[p].expiredAt = req'[p].result.exp
               /\ u.lastLogIn # <<>>
               /\ getUnixTime(u.lastLogIn[1]) = t
               /\ req'[p].result.sessionId =
                      createSessionId(req[p].userExtId, getUnixTime(u.lastLogIn[1]))]_vars

C17_Witness ==
    \E p \in Procs, s \in sessions :
        /\ req[p].op = "refresh" /\ req[p].pc = "done" /\ req[p].result = s.token
        /\ req[p].expiredAt = s.timestamp + JwtLifetimeSec
        /\ users[s.id].lastLogIn = <<s.timestamp * 1000>>
        /\ s.token.iat # s.timestamp

\* C18: every minted token that validates resolves to the primary key of the
\* row it was minted for.
C18_ResolvesToMintingUser ==
    \A s \in sessions :
        Validates(users, s.token) => findOneByExtId(users, s.token.userId) = s.id

\* C19: the step that applies a log-out's update invalidates no token with
\* another session id than the one that log-out presented: a token of the same
\* row that passes the session check before the step passes it after.  Stated
\* for rows with an extId of their own.
C19_LogoutOnlyOwnSession ==
    [][\A p \in Procs :
         (LogOutUpdate(p) /\ UniqueExtId(users, req[p].userId))
         => \A s \in sessions :
              (/\ s.id = req[p].userId
               /\ s.token.sessionId # req[p].token.sessionId
               /\ checkSession(users, s.token) = "OK")
              => checkSession(users', s.token) = "OK"]_vars

\* C20: when the update of a refresh is applied to a row whose lastLogIn a
\* log-out has cleared since the refresh validated, no token minted for that
\* row validates afterwards, the one the refresh returns included.
C20_NoSessionAfterLogout ==
    [][\A p \in Procs :
         (/\ NewUserSession(p) /\ req[p].op = "refresh"
          /\ users[req[p].userId].lastLogIn = <<>>)
         => /\ ~Validates(users', req'[p].result)
            /\ \A s \in sessions : s.id = req[p].userId => ~Validates(users', s.token)]_vars

====
